---- MODULE Spec2Model ----
(***************************************************************************)
(* Model of cos_log (src/src/log.c, src/include/log.h): the process-wide   *)
(* logging context log_ctx, its registry of log sources (a uthash table    *)
(* kept in insertion order), the gate is_log_allowed, and the public       *)
(* entry points.  Each public function is one action of a single caller.   *)
(***************************************************************************)
EXTENDS Integers, Sequences, FiniteSets, TLC

(* ---------------- program constants ---------------- *)

\* enum tag_log_level, src/include/log.h:13-27
LL_INVALID == 0
LL_RAW == 1
LL_TRACE == 2
LL_DEBUG == 3
LL_INFO == 4
LL_WARNING == 5
LL_ERROR == 6
LL_NONE == 7
LL_CNT == 8

\* src/src/log.c:19 and :24
LOG_SRC_MAX_SIZE == 16
LOG_SRC_STORED_MAX_SIZE == 128
LOG_FILE_NAME_MAX_SIZE == 20
LOG_RAW_ADDR_FIELD_WIDTH == 8

(* ---------------- bounds of the model ---------------- *)

\* largest number of registry entries where the names are long: a name that
\* is stored cut gets one more entry with every registration
MaxEntries == 2
\* longest descriptor array handed to log_register_ex
MaxDescrs == 2

(* ---------------- input domains ---------------- *)

Rep(c, n) == [i \in 1..n |-> c]

NET == <<"N", "E", "T">>
IO == <<"I", "O">>
\* a name of LOG_SRC_STORED_MAX_SIZE + k characters
LongName(k) == Rep("x", LOG_SRC_STORED_MAX_SIZE + k)
\* one character below the stored maximum, exactly at it, one above it
LongNames == {LongName(0 - 1), LongName(0), LongName(1)}

\* values of log_level_t a caller can pass, valid or not
LevelArgs == LL_INVALID..LL_CNT
\* the levels log_log / log_will_be_printed accept (asserted in is_log_allowed)
GateLevels == (LL_INVALID + 1)..(LL_CNT - 1)

\* buffer lengths handed to log_raw
RawLengths == {0, 17}

\* inputs of the gate specification: every level, short names
GateNames == {NET, IO}
DB == <<"D", "B">>
\* inputs of the order specification: three short names
OrderNames == {NET, IO, DB}
GateRegArgs == ({NET} \X LevelArgs) \cup ({IO} \X {LL_DEBUG})

\* inputs of the registry specification: names around the stored maximum, few levels
RegNames == {NET} \cup LongNames
RegLevels == {LL_INVALID, LL_DEBUG, LL_ERROR, LL_CNT}
RegInitLevels == {LL_INVALID, LL_INFO}
DumpLevels == {LL_DEBUG, LL_ERROR}
OrderRegArgs == ({NET} \X DumpLevels) \cup ({IO, DB} \X {LL_DEBUG})
MaxRawLen == 33
MaxBufLen == 20
\* characters of a file path
MaxPathLen == 4
\* byte values at the borders of what isprint tells apart
HexBytes == {0, 31, 32, 65, 126, 127, 128, 255}
\* a buffer of length len whose bytes are b1, b2, b1, ...
Buffer(len, b1, b2) == [k \in 1..len |-> IF k % 2 = 1 THEN b1 ELSE b2]
Threads == {1, 2}
ThrLevels == {LL_RAW, LL_ERROR}
\* (buffer is NULL, length) of the raw dumps threads ask for
ThrRaws == {<<TRUE, 0>>, <<FALSE, 17>>}
RawLevels == {LL_RAW, LL_DEBUG}
Descr(source, level) == [source |-> source, min_log_level |-> level]
Descrs == {Descr(NET, LL_DEBUG), Descr(NET, LL_INVALID), Descr(LongName(0 - 1), LL_ERROR)}
DescrArrays == UNION {[1..n -> Descrs] : n \in 0..MaxDescrs}

(* ---------------- state ---------------- *)

VARIABLES
    initialized,    \* log_ctx.initialized
    use_mutex,      \* log_ctx.use_mutex
    mutex,          \* state of log_ctx.mutex: "zero" (static storage), "ready", "destroyed",
                    \* "twice" (initialized again while ready)
    min_log_level,  \* log_ctx.min_log_level
    source_hm,      \* log_ctx.source_hm: the entries in the table's list order
    aborted,        \* the process was stopped by a failed assert
    call,           \* the last public call and its arguments
    old,            \* the context as it was when the last call was made
    ret,            \* what the last call returned
    out,            \* the lines the last call wrote to stderr
    dump,           \* the log_src_dump_t the caller holds (from the last log_src_dump)
    taken,          \* what that snapshot showed when log_src_dump returned it
    th,             \* per thread: where it is in its call, and the call's arguments and locals
    owner,          \* the thread that holds log_ctx.mutex, 0 when it is free
    log_buf,        \* the shared scratch buffer log_buf
    sink,           \* the end of what threads wrote to stderr: its last two lines
    fn              \* the one application of a formatting or conversion helper that is looked at

vars == <<initialized, use_mutex, mutex, min_log_level, source_hm, aborted, call, old, ret, out,
          dump, taken, th, owner, log_buf, sink, fn>>
snap == <<dump, taken>>
\* the state of calls made by concurrent threads
thr == <<th, owner, log_buf, sink>>
\* the record of the last call of the single caller
hist == <<call, old, ret, out>>
ctx == <<initialized, use_mutex, mutex, min_log_level, source_hm>>
\* the fields of log_ctx as one record
CtxRec == [initialized |-> initialized, use_mutex |-> use_mutex, mutex |-> mutex,
           min_log_level |-> min_log_level, source_hm |-> source_hm]

NoCall == [op |-> "none", source |-> <<>>, level |-> LL_INVALID, descr |-> <<>>,
           flag |-> FALSE, length |-> 0]
Call(op, source, level) == [NoCall EXCEPT !.op = op, !.source = source, !.level = level]

\* log_src_dump_t. A descriptor's source is a const char *: 0 stands for a
\* pointer whose storage was freed and k > 0 for a pointer to the source field
\* of the k-th item of the table. null: the caller holds NULL.
NoDump == [null |-> TRUE, global_level |-> LL_INVALID, num_log_src_descr |-> 0,
           log_src_descrs |-> <<>>]

\* free(elt) after HASH_DEL of item k: a pointer into that item dangles, the
\* items behind it move up one place in the list
Freed(d, k) ==
    [d EXCEPT !.log_src_descrs =
        [i \in DOMAIN @ |->
            [@[i] EXCEPT !.source = IF @ = k THEN 0 ELSE IF @ > k THEN @ - 1 ELSE @]]]

\* the first n items of the table are unlinked and freed one after the other
RECURSIVE FreedAll(_, _)
FreedAll(d, n) == IF n = 0 THEN d ELSE FreedAll(Freed(d, 1), n - 1)

\* no helper was applied yet
NoFn == [f |-> "none"]

\* a thread that is in no call
IdleThr == [pc |-> "idle", op |-> "none", source |-> <<>>, level |-> LL_INVALID,
            flag |-> FALSE, length |-> 0, i |-> 0, res |-> FALSE]
\* log_buf before anything was formatted into it
NoBuf == [by |-> 0, kind |-> "none"]

(* ---------------- C library and uthash helpers ---------------- *)

Min(a, b) == IF a < b THEN a ELSE b

strlen(s) == Len(s)

\* strncpy(dst, src, n) into a zeroed buffer followed by dst[n] = '\0'
strncpy(src, n) == SubSeq(src, 1, Min(Len(src), n))

\* HASH_FIND_STR: index of the entry whose key equals name (0 when none).
\* uthash puts a new item at the head of its bucket chain, so among equal
\* keys the one added last is met first.
HASH_FIND_STR(hm, name) ==
    LET hits == {i \in 1..Len(hm) : hm[i].source = name}
    IN  IF hits = {} THEN 0 ELSE CHOOSE i \in hits : \A j \in hits : j <= i

\* an insertion in front of the items the table has
HASH_ADD_STR_at_head(hm, elt) == <<elt>> \o hm

\* HASH_ADD_STR: the new item goes to the tail of the application-order list
HASH_ADD_STR(hm, elt) == Append(hm, elt)

\* an unlink that loses the items behind the removed one
HASH_DEL_drops_tail(hm, i) == SubSeq(hm, 1, i - 1)

\* HASH_DEL: unlink item i, the others keep their order
HASH_DEL(hm, i) == SubSeq(hm, 1, i - 1) \o SubSeq(hm, i + 1, Len(hm))

(* ---------------- gate ---------------- *)

\* a strict comparison in place of >=
check_log_level_strict(requested, current) == requested > current

check_log_level(requested, current) == requested >= current

\* the gate without its lookup result check: a missing entry does not deny
is_log_allowed_unregistered(source, log_level) ==
    /\ check_log_level(log_level, min_log_level)
    /\ LET elt == HASH_FIND_STR(source_hm, source)
       IN  elt # 0 => check_log_level(log_level, source_hm[elt].min_log_level)

\* the gate without its first stage: only the per-source threshold decides
is_log_allowed_no_global(source, log_level) ==
    LET elt == HASH_FIND_STR(source_hm, source)
    IN  /\ elt # 0
        /\ check_log_level(log_level, source_hm[elt].min_log_level)

\* the gate without its second stage: only the global threshold decides
is_log_allowed_no_source(source, log_level) ==
    /\ check_log_level(log_level, min_log_level)
    /\ HASH_FIND_STR(source_hm, source) # 0

is_log_allowed(source, log_level) ==
    /\ check_log_level(log_level, min_log_level)
    /\ LET elt == HASH_FIND_STR(source_hm, source)
       IN  /\ elt # 0
           /\ check_log_level(log_level, source_hm[elt].min_log_level)

(* ---------------- the context mutex ---------------- *)

\* lock_mutex_if_it_needs: locking a mutex that is not initialized or was
\* destroyed is undefined; the build either goes on or stops in the assert
\* of MUTEX_CHECK_LOCK.
LockOutcomes == IF use_mutex /\ mutex # "ready" THEN {"ok", "abort"} ELSE {"ok"}

Abort(c) ==
    /\ aborted' = TRUE
    /\ call' = c /\ old' = CtxRec
    /\ ret' = "aborted"
    /\ out' = <<>>
    /\ UNCHANGED <<ctx, snap, thr, fn>>

\* a call that returns r, wrote the lines o and left the context alone
Return(c, r, o) ==
    /\ call' = c /\ old' = CtxRec
    /\ ret' = r
    /\ out' = o
    /\ UNCHANGED <<ctx, aborted, snap, thr, fn>>

(* ---------------- operations ---------------- *)

Init ==
    /\ initialized = FALSE
    /\ use_mutex = FALSE
    /\ mutex = "zero"
    /\ min_log_level = LL_INVALID
    /\ source_hm = <<>>
    /\ aborted = FALSE
    /\ call = NoCall
    /\ old = CtxRec
    /\ ret = "none"
    /\ out = <<>>
    /\ dump = NoDump
    /\ taken = NoDump
    /\ th = [t \in Threads |-> IdleThr]
    /\ owner = 0
    /\ log_buf = NoBuf
    /\ sink = <<>>
    /\ fn = NoFn

\* the body of log_init: what it does to log_ctx when it returns r
\* (mutex_ok: pthread_mutex_init returns 0)
log_init_body(level, is_thread_safe, mutex_ok, r) ==
    IF initialized = FALSE
    THEN IF (level <= LL_INVALID) \/ (level >= LL_CNT)
         THEN r = FALSE /\ UNCHANGED <<initialized, use_mutex, mutex, min_log_level>>
         ELSE /\ min_log_level' = level
              /\ use_mutex' = is_thread_safe
              /\ IF is_thread_safe /\ ~mutex_ok
                 THEN r = FALSE /\ UNCHANGED <<initialized, mutex>>
                 ELSE /\ mutex' = IF is_thread_safe THEN "ready" ELSE mutex
                      /\ initialized' = TRUE
                      /\ r = TRUE
    ELSE r = FALSE /\ UNCHANGED <<initialized, use_mutex, mutex, min_log_level>>

log_init(level, is_thread_safe, mutex_ok) ==
    LET c == [Call("log_init", <<>>, level) EXCEPT !.flag = is_thread_safe] IN
    /\ ~aborted
    /\ call' = c /\ old' = CtxRec
    /\ out' = <<>>
    /\ UNCHANGED <<source_hm, aborted, snap, thr, fn>>
    /\ \E r \in BOOLEAN : log_init_body(level, is_thread_safe, mutex_ok, r) /\ ret' = r

\* log_set_log_level without the check of its argument
log_set_log_level_unchecked(level) ==
    LET c == Call("log_set_log_level", <<>>, level) IN
    /\ ~aborted
    /\ IF initialized = FALSE THEN Return(c, FALSE, <<>>)
       ELSE \E lk \in LockOutcomes :
            IF lk = "abort" THEN Abort(c)
            ELSE /\ min_log_level' = level
                 /\ call' = c /\ old' = CtxRec
                 /\ ret' = TRUE
                 /\ out' = <<>>
                 /\ UNCHANGED <<initialized, use_mutex, mutex, source_hm, aborted, snap, thr, fn>>

log_set_log_level(level) ==
    LET c == Call("log_set_log_level", <<>>, level) IN
    /\ ~aborted
    /\ IF (level <= LL_INVALID) \/ (level >= LL_CNT) THEN Return(c, FALSE, <<>>)
       ELSE IF initialized = FALSE THEN Return(c, FALSE, <<>>)
       ELSE \E lk \in LockOutcomes :
            IF lk = "abort" THEN Abort(c)
            ELSE /\ min_log_level' = level
                 /\ call' = c /\ old' = CtxRec
                 /\ ret' = TRUE
                 /\ out' = <<>>
                 /\ UNCHANGED <<initialized, use_mutex, mutex, source_hm, aborted, snap, thr, fn>>

\* the part of log_register between lock and unlock (lines 538-559): the
\* table and the result it leaves; alloc_ok tells whether calloc succeeds
RegisterLocked(hm, source, level, alloc_ok) ==
    LET existing == HASH_FIND_STR(hm, source) IN
    IF existing # 0
    THEN [hm |-> [hm EXCEPT ![existing].min_log_level = level], result |-> TRUE]
    ELSE IF alloc_ok
         THEN [hm |-> HASH_ADD_STR(hm, [source |-> strncpy(source, LOG_SRC_STORED_MAX_SIZE - 1),
                                        min_log_level |-> level]),
               result |-> TRUE]
         ELSE [hm |-> hm, result |-> FALSE]

\* the checks without the one on the length of the name
RegisterRejects_no_length(source, level) ==
    \/ (level <= LL_INVALID) \/ (level >= LL_CNT)
    \/ initialized = FALSE

\* the checks of log_register before it takes the lock (lines 530-536)
RegisterRejects(source, level) ==
    \/ (level <= LL_INVALID) \/ (level >= LL_CNT)
    \/ initialized = FALSE
    \/ strlen(source) > LOG_SRC_STORED_MAX_SIZE

\* the answers of calloc where the names are long: it only gives a block
\* while the table has fewer than MaxEntries entries. With short names the
\* table has at most one entry for each name and calloc is free to give one.
AllocChoices(hm) == IF Len(hm) < MaxEntries THEN BOOLEAN ELSE {FALSE}

log_register(source, level, alloc_ok) ==
    LET c == Call("log_register", source, level) IN
    /\ ~aborted
    /\ IF RegisterRejects(source, level) THEN Return(c, FALSE, <<>>)
       ELSE \E lk \in LockOutcomes :
            IF lk = "abort" THEN Abort(c)
            ELSE LET r == RegisterLocked(source_hm, source, level, alloc_ok) IN
                 /\ source_hm' = r.hm
                 /\ call' = c /\ old' = CtxRec
                 /\ ret' = r.result
                 /\ out' = <<>>
                 /\ UNCHANGED <<initialized, use_mutex, mutex, min_log_level, aborted, snap, thr, fn>>

log_unregister(source) ==
    LET c == Call("log_unregister", source, LL_INVALID) IN
    /\ ~aborted
    /\ IF initialized = FALSE THEN Return(c, "void", <<>>)
       ELSE \E lk \in LockOutcomes :
            IF lk = "abort" THEN Abort(c)
            ELSE LET elt == HASH_FIND_STR(source_hm, source) IN
                 /\ source_hm' = IF elt # 0 THEN HASH_DEL(source_hm, elt) ELSE source_hm
                 /\ dump' = IF elt # 0 THEN Freed(dump, elt) ELSE dump
                 /\ call' = c /\ old' = CtxRec
                 /\ ret' = "void"
                 /\ out' = <<>>
                 /\ UNCHANGED <<initialized, use_mutex, mutex, min_log_level, aborted, taken, thr, fn>>

\* a loop that remembers the failure but goes on with the entries behind it
RECURSIVE RegisterLoop_goes_on(_, _, _, _)
RegisterLoop_goes_on(hm, descr, allocs, i) ==
    IF i > Len(descr) THEN [hm |-> hm, result |-> TRUE]
    ELSE IF RegisterRejects(descr[i].source, descr[i].min_log_level)
         THEN [hm |-> RegisterLoop_goes_on(hm, descr, allocs, i + 1).hm, result |-> FALSE]
         ELSE LET r == RegisterLocked(hm, descr[i].source, descr[i].min_log_level,
                                      allocs[i] /\ Len(hm) < MaxEntries)
                  rest == RegisterLoop_goes_on(r.hm, descr, allocs, i + 1)
              IN  [hm |-> rest.hm, result |-> r.result /\ rest.result]

\* log_register_ex, lines 579-586: register descr[i..] in order on table hm,
\* stopping at the first failure; allocs[i] tells whether calloc would succeed
\* for entry i
RECURSIVE RegisterLoop(_, _, _, _)
RegisterLoop(hm, descr, allocs, i) ==
    IF i > Len(descr) THEN [hm |-> hm, result |-> TRUE]
    ELSE IF RegisterRejects(descr[i].source, descr[i].min_log_level)
         THEN [hm |-> hm, result |-> FALSE]
         ELSE LET r == RegisterLocked(hm, descr[i].source, descr[i].min_log_level,
                                      allocs[i] /\ Len(hm) < MaxEntries)
              IN  IF r.result THEN RegisterLoop(r.hm, descr, allocs, i + 1)
                  ELSE [hm |-> r.hm, result |-> FALSE]

\* descr_null: the caller passes descr = NULL together with num_descrs = num
log_register_ex(descr, descr_null, num, allocs) ==
    LET c == [Call("log_register_ex", <<>>, LL_INVALID)
                 EXCEPT !.descr = descr, !.flag = descr_null, !.length = num] IN
    /\ ~aborted
    /\ num = IF descr_null THEN num ELSE Len(descr)
    /\ descr_null => descr = <<>>
    /\ IF initialized = FALSE THEN Return(c, FALSE, <<>>)
       ELSE IF num # 0 /\ descr_null THEN Return(c, FALSE, <<>>)
       ELSE IF num = 0 THEN Return(c, TRUE, <<>>)
       ELSE \E lk \in (IF RegisterRejects(descr[1].source, descr[1].min_log_level)
                       THEN {"ok"} ELSE LockOutcomes) :
            IF lk = "abort" THEN Abort(c)
            ELSE LET r == RegisterLoop(source_hm, descr, allocs, 1) IN
                 /\ source_hm' = r.hm
                 /\ call' = c /\ old' = CtxRec
                 /\ ret' = r.result
                 /\ out' = <<>>
                 /\ UNCHANGED <<initialized, use_mutex, mutex, min_log_level, aborted, snap, thr, fn>>

\* a loop that unlinks the head of the table and stops
HashClear_head_only(hm) == IF hm = <<>> THEN hm ELSE HASH_DEL(hm, 1)

\* the HASH_ITER loop of log_destroy, lines 625-630: unlink and free every item
RECURSIVE HashClear(_)
HashClear(hm) == IF hm = <<>> THEN hm ELSE HashClear(HASH_DEL(hm, 1))

\* destroy_ok: pthread_mutex_destroy returns 0
log_destroy(destroy_ok) ==
    LET c == Call("log_destroy", <<>>, LL_INVALID) IN
    /\ ~aborted
    /\ IF ~initialized THEN Return(c, TRUE, <<>>)
       ELSE \E lk \in LockOutcomes :
            IF lk = "abort" THEN Abort(c)
            ELSE /\ source_hm' = HashClear(source_hm)
                 /\ dump' = FreedAll(dump, Len(source_hm) - Len(HashClear(source_hm)))
                 /\ call' = c /\ old' = CtxRec
                 /\ out' = <<>>
                 /\ UNCHANGED <<initialized, use_mutex, min_log_level, aborted, taken, thr, fn>>
                 /\ IF use_mutex
                    THEN IF destroy_ok
                         THEN mutex' = "destroyed" /\ ret' = TRUE
                         ELSE mutex' = mutex /\ ret' = FALSE
                    ELSE mutex' = mutex /\ ret' = TRUE

\* a copy loop that leaves out the last item of the table
DumpDescrs_one_short(hm) ==
    [i \in 1..(Len(hm) - 1) |-> [source |-> i, min_log_level |-> hm[i].min_log_level]]

\* the copy loop of log_src_dump, lines 943-949: descriptor i gets the address
\* of the source field of item i and a copy of its level
DumpDescrs(hm) ==
    [i \in 1..Len(hm) |-> [source |-> i, min_log_level |-> hm[i].min_log_level]]

\* the (name, level) pairs a reader finds behind the descriptors of d just now;
\* only asked while no pointer of d dangles
Pairs(d) ==
    [i \in DOMAIN d.log_src_descrs |->
        [source |-> source_hm[d.log_src_descrs[i].source].source,
         min_log_level |-> d.log_src_descrs[i].min_log_level]]

\* alloc_ok: malloc returns a block
log_src_dump(alloc_ok) ==
    LET c == [Call("log_src_dump", <<>>, LL_INVALID) EXCEPT !.flag = alloc_ok] IN
    /\ ~aborted
    /\ IF ~initialized
       THEN Return(c, "NULL", <<>>)
       ELSE \E lk \in LockOutcomes :
            IF lk = "abort" THEN Abort(c)
            ELSE LET res == [null |-> FALSE,
                             global_level |-> min_log_level,
                             num_log_src_descr |-> Len(source_hm),
                             log_src_descrs |-> DumpDescrs(source_hm)] IN
                 /\ call' = c /\ old' = CtxRec
                 /\ out' = <<>>
                 /\ UNCHANGED <<ctx, aborted, thr, fn>>
                 /\ IF alloc_ok
                    THEN /\ ret' = "dump"
                         /\ dump' = res
                         /\ taken' = [res EXCEPT !.log_src_descrs = source_hm]
                    ELSE /\ ret' = "NULL"
                         /\ dump' = NoDump
                         /\ taken' = NoDump

\* the caller hands back the snapshot it holds (free(NULL) is not called)
log_src_dump_delete ==
    LET c == [Call("log_src_dump_delete", <<>>, LL_INVALID) EXCEPT !.flag = dump.null] IN
    /\ ~aborted
    /\ call' = c /\ old' = CtxRec
    /\ ret' = "void"
    /\ out' = <<>>
    /\ dump' = NoDump
    /\ taken' = NoDump
    /\ UNCHANGED <<ctx, aborted, thr, fn>>

(* ---------------- formatting ---------------- *)

\* log_level_map, lines 121-132
log_level_map ==
    <<  <<"I", "N", "V", "A", "L", "I", "D">>,
        <<"R", "A", "W">>,
        <<"T", "R", "A", "C", "E">>,
        <<"D", "E", "B", "U", "G">>,
        <<"I", "N", "F", "O">>,
        <<"W", "A", "R", "N", "I", "N", "G">>,
        <<"E", "R", "R", "O", "R">>,
        <<"N", "O", "N", "E">> >>

\* printf's %-w.ws: at most w characters, blank-padded on the right to w
PadTrunc(str, w) ==
    LET n == Min(Len(str), w) IN SubSeq(str, 1, n) \o Rep(" ", w - n)

\* compose_log_prefix: the severity tag and the source field of the prefix
compose_log_prefix(source, log_level) ==
    [tag |-> PadTrunc(log_level_map[log_level + 1], 1),
     source |-> PadTrunc(source, LOG_SRC_MAX_SIZE)]

\* a loop that only writes the rows the buffer fills completely
RECURSIVE hexdump_lines_full_rows(_, _)
hexdump_lines_full_rows(i, length) ==
    IF i + 16 <= length
    THEN <<[kind |-> "hexdump", row |-> i \div 16]>> \o hexdump_lines_full_rows(i + 16, length)
    ELSE <<>>

\* the loop of log_raw, lines 808-812: one hexdump line per step of 16
RECURSIVE hexdump_lines(_, _)
hexdump_lines(i, length) ==
    IF i < length THEN <<[kind |-> "hexdump", row |-> i \div 16]>> \o hexdump_lines(i + 16, length)
    ELSE <<>>

\* the digits printf's %X writes
HexDigits == <<"0", "1", "2", "3", "4", "5", "6", "7", "8", "9", "A", "B", "C", "D", "E", "F">>

\* printf's %X without a precision: as many digits as the value needs
RECURSIVE HexOf(_)
HexOf(v) == IF v < 16 THEN <<HexDigits[v + 1]>>
            ELSE HexOf(v \div 16) \o <<HexDigits[(v % 16) + 1]>>

\* printf's %.wX: at least w digits, zeros in front
HexField(v, w) == Rep("0", w - Len(HexOf(v))) \o HexOf(v)

\* the characters of the bytes 32 .. 126 (byte 96, which a TLA+ string cannot
\* hold, by its name)
Ascii ==
    <<" ", "!", "\"", "#", "$", "%", "&", "'", "(", ")", "*", "+", ",", "-", ".", "/",
      "0", "1", "2", "3", "4", "5", "6", "7", "8", "9", ":", ";", "<", "=", ">", "?",
      "@", "A", "B", "C", "D", "E", "F", "G", "H", "I", "J", "K", "L", "M", "N", "O",
      "P", "Q", "R", "S", "T", "U", "V", "W", "X", "Y", "Z", "[", "\\", "]", "^", "_",
      "<grave>", "a", "b", "c", "d", "e", "f", "g", "h", "i", "j", "k", "l", "m", "n", "o",
      "p", "q", "r", "s", "t", "u", "v", "w", "x", "y", "z", "{", "|", "}", "~">>

\* the character a byte is when it is stored into a char unchanged; a byte
\* outside 32 .. 126 is written here as the byte value between brackets
chr(b) == IF b >= 32 /\ b <= 126 THEN Ascii[b - 31] ELSE "[" \o ToString(b) \o "]"

\* an isprint that calls every byte printable
isprint_all(b, hi) == TRUE

\* isprint(*cptr) in the C locale. cptr is a const char *: a byte above 127
\* reaches isprint as a negative int where char is signed, which isprint is
\* not defined for, and as a value whose answer depends on the locale where
\* char is unsigned; hi is the answer the build gives for such bytes.
isprint(b, hi) == IF b > 127 THEN hi ELSE b >= 32 /\ b <= 126

\* compose_hexdump_line, lines 717-724: the number of bytes of the row
hexdump_limit(buf_in_size, offset) ==
    IF buf_in_size - offset * 16 > 16 THEN 16 ELSE buf_in_size - offset * 16

\* the loop of lines 726-731: " XX" for the bytes i .. limit - 1 of the row
RECURSIVE hexdump_hex(_, _, _, _)
hexdump_hex(buf_in, offset, i, limit) ==
    IF i < limit
    THEN <<" ">> \o HexField(buf_in[offset * 16 + i + 1], 2)
         \o hexdump_hex(buf_in, offset, i + 1, limit)
    ELSE <<>>

\* the loop of lines 748-753: the bytes i .. limit - 1 of the row as text
RECURSIVE hexdump_text(_, _, _, _, _)
hexdump_text(buf_in, offset, i, limit, hi) ==
    IF i < limit
    THEN LET c == buf_in[offset * 16 + i + 1]
         IN  <<IF isprint(c, hi) THEN chr(c) ELSE ".">>
             \o hexdump_text(buf_in, offset, i + 1, limit, hi)
    ELSE <<>>

\* compose_hexdump_line(buf_in, buf_in_size, offset, buf_out): text is the
\* string left in buf_out, reads the indices of buf_in that were read, size the
\* number of bytes of buf_out that were written, the terminator included
compose_hexdump_line(buf_in, buf_in_size, offset, hi) ==
    LET limit == hexdump_limit(buf_in_size, offset)
        text == HexField(offset * 16, LOG_RAW_ADDR_FIELD_WIDTH) \o <<" ", " ">>
                \o hexdump_hex(buf_in, offset, 0, limit)
                \o Rep(" ", 3 * (16 - limit))
                \o <<" ", "|", " ">>
                \o hexdump_text(buf_in, offset, 0, limit, hi)
    IN  [text |-> text,
         reads |-> {offset * 16 + i : i \in 0..(limit - 1)},
         size |-> Len(text) + 1]

\* log_raw hands row offset of a buffer to compose_hexdump_line
hexdump_row(buf_in, offset, hi) ==
    /\ fn = NoFn
    /\ offset * 16 < Len(buf_in)
    /\ fn' = [f |-> "compose_hexdump_line", buf_in |-> buf_in, offset |-> offset,
              res |-> compose_hexdump_line(buf_in, Len(buf_in), offset, hi)]
    /\ UNCHANGED <<ctx, aborted, hist, snap, thr>>

(* ---------------- severity names ---------------- *)

UpperCase ==
    <<"A", "B", "C", "D", "E", "F", "G", "H", "I", "J", "K", "L", "M",
      "N", "O", "P", "Q", "R", "S", "T", "U", "V", "W", "X", "Y", "Z">>

LowerCase ==
    <<"a", "b", "c", "d", "e", "f", "g", "h", "i", "j", "k", "l", "m",
      "n", "o", "p", "q", "r", "s", "t", "u", "v", "w", "x", "y", "z">>

\* tolower of the "C" locale, the one a program is in unless it calls setlocale
tolower(c) ==
    IF \E k \in 1..26 : UpperCase[k] = c
    THEN LowerCase[CHOOSE k \in 1..26 : UpperCase[k] = c]
    ELSE c

\* a comparison that tells the cases apart
strcasecmp_exact(s1, s2) == IF s1 = s2 THEN 0 ELSE 1

\* strcasecmp: 0 when the strings are equal after tolower of every character,
\* otherwise a number other than 0 (1 here, the sign is not used)
strcasecmp(s1, s2) ==
    IF Len(s1) = Len(s2) /\ \A k \in 1..Len(s1) : tolower(s1[k]) = tolower(s2[k])
    THEN 0 ELSE 1

\* the loop of log_str_to_ll from ll on
RECURSIVE str_to_ll_from(_, _)
str_to_ll_from(str, ll) ==
    IF ~(ll < LL_CNT) THEN LL_INVALID
    ELSE IF strcasecmp(str, log_level_map[ll + 1]) = 0 THEN ll
    ELSE str_to_ll_from(str, ll + 1)

log_str_to_ll(str) == str_to_ll_from(str, LL_INVALID)

log_ll_to_str(log_level) ==
    IF log_level >= LL_INVALID /\ log_level < LL_CNT
    THEN log_level_map[log_level + 1]
    ELSE log_level_map[LL_INVALID + 1]

\* str with every character at a position that is a multiple of m in lower case
LowerEvery(str, m) == [k \in 1..Len(str) |-> IF k % m = 0 THEN tolower(str[k]) ELSE str[k]]

\* the names of log_level_map as they are, in lower case, and in two mixed cases
NameStrings == {LowerEvery(log_level_map[ll + 1], m) : ll \in LL_INVALID..LL_NONE, m \in 1..4}

\* strings that are no name: empty, a word, a name cut short, a name with a
\* character more in front or behind, a name with a character changed
OtherStrings ==
    {<<>>, <<"b", "o", "g", "u", "s">>, <<"E", "R", "R">>, <<"W", "A", "R", "N", "I", "N">>,
     <<"E", "R", "R", "O", "R", "S">>, <<" ", "R", "A", "W">>, <<"R", "A", "W", " ">>,
     <<"N", "O", "N", "3">>, <<"1", "N", "F", "O">>, <<"t", "r", "a", "c", "e", "_">>}

\* values of log_level_t given to log_ll_to_str, in range or not
LevelValues == (0 - 2)..(LL_CNT + 2)

log_str_to_ll_call(str) ==
    /\ fn = NoFn
    /\ fn' = [f |-> "log_str_to_ll", str |-> str, res |-> log_str_to_ll(str)]
    /\ UNCHANGED <<ctx, aborted, hist, snap, thr>>

log_ll_to_str_call(log_level) ==
    /\ fn = NoFn
    /\ fn' = [f |-> "log_ll_to_str", log_level |-> log_level, res |-> log_ll_to_str(log_level)]
    /\ UNCHANGED <<ctx, aborted, hist, snap, thr>>

(* ---------------- file names ---------------- *)

\* strrchr: the position of the last c in str, 0 for NULL
strrchr(str, c) ==
    IF \E k \in 1..Len(str) : str[k] = c
    THEN CHOOSE k \in 1..Len(str) : str[k] = c /\ \A j \in (k + 1)..Len(str) : str[j] # c
    ELSE 0

\* extract_file_name: behind the last '/' when there is one, otherwise behind
\* the last '\' when there is one, otherwise the path itself
extract_file_name(file_path) ==
    LET pos == strrchr(file_path, "/")
        pos2 == strrchr(file_path, "\\")
    IN  IF pos # 0 THEN SubSeq(file_path, pos + 1, Len(file_path))
        ELSE IF pos2 # 0 THEN SubSeq(file_path, pos2 + 1, Len(file_path))
        ELSE file_path

\* the file field of the prefix: "%-20.20s" of extract_file_name(file)
compose_log_prefix_file(file) == PadTrunc(extract_file_name(file), LOG_FILE_NAME_MAX_SIZE)

\* paths of up to MaxPathLen characters out of a letter and the two separators
RECURSIVE PathsOf(_)
PathsOf(n) ==
    IF n = 0 THEN {<<>>}
    ELSE {Append(p, c) : p \in PathsOf(n - 1), c \in {"a", "/", "\\"}}

\* a directory and a file name longer than the file field
LongPath == <<"d", "/">> \o Rep("f", LOG_FILE_NAME_MAX_SIZE + 1) \o <<".", "c">>

Paths == UNION {PathsOf(n) : n \in 0..MaxPathLen} \cup {LongPath}

compose_log_prefix_call(file) ==
    /\ fn = NoFn
    /\ fn' = [f |-> "compose_log_prefix", file |-> file, res |-> compose_log_prefix_file(file)]
    /\ UNCHANGED <<ctx, aborted, hist, snap, thr>>

(* ---------------- logging and queries ---------------- *)

log_log(source, log_level) ==
    LET c == Call("log_log", source, log_level) IN
    /\ ~aborted
    /\ IF initialized = FALSE THEN Return(c, "void", <<>>)
       ELSE \E lk \in LockOutcomes :
            IF lk = "abort" THEN Abort(c)
            ELSE IF is_log_allowed(source, log_level)
                 THEN Return(c, "void", <<[kind |-> "log",
                                          prefix |-> compose_log_prefix(source, log_level)]>>)
                 ELSE Return(c, "void", <<>>)

log_raw(source, buffer_null, length) ==
    LET c == [Call("log_raw", source, LL_RAW) EXCEPT !.flag = buffer_null, !.length = length] IN
    /\ ~aborted
    /\ IF initialized = FALSE THEN Return(c, "void", <<>>)
       ELSE \E lk \in LockOutcomes :
            IF lk = "abort" THEN Abort(c)
            ELSE IF is_log_allowed(source, LL_RAW)
                 THEN Return(c, "void",
                             <<[kind |-> "raw", prefix |-> compose_log_prefix(source, LL_RAW)]>>
                             \o (IF ~buffer_null THEN hexdump_lines(0, length)
                                 ELSE <<[kind |-> "NULL"]>>))
                 ELSE Return(c, "void", <<>>)

log_will_be_printed(source, log_level) ==
    LET c == Call("log_will_be_printed", source, log_level) IN
    /\ ~aborted
    /\ \E lk \in LockOutcomes :
         IF lk = "abort" THEN Abort(c)
         ELSE Return(c, is_log_allowed(source, log_level), <<>>)

log_get_src_level(source) ==
    LET c == Call("log_get_src_level", source, LL_INVALID) IN
    /\ ~aborted
    /\ \E lk \in LockOutcomes :
         IF lk = "abort" THEN Abort(c)
         ELSE LET elt == HASH_FIND_STR(source_hm, source) IN
              Return(c, IF elt # 0 THEN source_hm[elt].min_log_level ELSE LL_INVALID, <<>>)

log_get_global_level ==
    LET c == Call("log_get_global_level", <<>>, LL_INVALID) IN
    /\ ~aborted
    /\ \E lk \in LockOutcomes :
         IF lk = "abort" THEN Abort(c)
         ELSE Return(c, min_log_level, <<>>)

(* ---------------- calls of concurrent threads ---------------- *)

\* Each public function is cut at its lock and unlock calls and at its writes
\* to stderr: th[t].pc is "idle" outside a call, "lock" in front of
\* lock_mutex_if_it_needs, "body" behind it, "write", "rows" and "null" in
\* front of the fprintf calls, "unlock" in front of unlock_mutex_if_it_needs.

\* thread t has passed the checks in front of the lock call of op
Enter(t, op, source, level, flag, length) ==
    /\ ~aborted
    /\ th[t].pc = "idle"
    /\ th' = [th EXCEPT ![t] = [pc |-> "lock", op |-> op, source |-> source, level |-> level,
                                flag |-> flag, length |-> length, i |-> 0, res |-> FALSE]]
    /\ UNCHANGED <<ctx, aborted, hist, fn, snap, owner, log_buf, sink>>

\* thread t is at pc in op
At(t, op, pc) == ~aborted /\ th[t].op = op /\ th[t].pc = pc

Goto(t, pc) == th' = [th EXCEPT ![t].pc = pc]

\* thread t is through with the arguments and locals of its call and goes to
\* the unlock call
Finish(t) == th' = [th EXCEPT ![t] = [IdleThr EXCEPT !.pc = "unlock"]]

\* a lock call that does not wait for the mutex
MUTEX_CHECK_LOCK_no_wait(t) == owner' = t

\* pthread_mutex_lock on the ready mutex: returns once the mutex is free
MUTEX_CHECK_LOCK(t) == owner = 0 /\ owner' = t

\* an unlock call that leaves the mutex held
MUTEX_CHECK_UNLOCK_no_release(t) == owner' = owner

\* pthread_mutex_unlock on the ready mutex
MUTEX_CHECK_UNLOCK(t) == owner' = 0

lock_mutex_if_it_needs(t) ==
    /\ ~aborted
    /\ th[t].pc = "lock"
    /\ UNCHANGED <<ctx, hist, fn, snap, log_buf, sink>>
    /\ \E lk \in LockOutcomes :
         IF lk = "abort" THEN aborted' = TRUE /\ UNCHANGED <<th, owner>>
         ELSE /\ IF use_mutex /\ mutex = "ready" THEN MUTEX_CHECK_LOCK(t) ELSE owner' = owner
              /\ Goto(t, "body")
              /\ UNCHANGED aborted

unlock_mutex_if_it_needs(t) ==
    /\ ~aborted
    /\ th[t].pc = "unlock"
    /\ UNCHANGED <<ctx, hist, fn, snap, log_buf, sink>>
    /\ \E lk \in LockOutcomes :
         IF lk = "abort" THEN aborted' = TRUE /\ UNCHANGED <<th, owner>>
         ELSE /\ IF use_mutex /\ mutex = "ready" THEN MUTEX_CHECK_UNLOCK(t) ELSE owner' = owner
              /\ th' = [th EXCEPT ![t] = IdleThr]
              /\ UNCHANGED aborted

\* the calls: a call that fails the checks in front of the lock returns at
\* once without touching anything and is not followed
log_register_call(t, source, level) ==
    /\ ~RegisterRejects(source, level)
    /\ Enter(t, "log_register", source, level, FALSE, 0)

log_unregister_call(t, source) ==
    /\ initialized
    /\ Enter(t, "log_unregister", source, LL_INVALID, FALSE, 0)

log_set_log_level_call(t, level) ==
    /\ ~((level <= LL_INVALID) \/ (level >= LL_CNT))
    /\ initialized
    /\ Enter(t, "log_set_log_level", <<>>, level, FALSE, 0)

log_log_call(t, source, log_level) ==
    /\ initialized
    /\ Enter(t, "log_log", source, log_level, FALSE, 0)

log_raw_call(t, source, buffer_null, length) ==
    /\ initialized
    /\ Enter(t, "log_raw", source, LL_RAW, buffer_null, length)

log_will_be_printed_call(t, source, log_level) ==
    /\ Enter(t, "log_will_be_printed", source, log_level, FALSE, 0)

log_get_src_level_call(t, source) ==
    /\ Enter(t, "log_get_src_level", source, LL_INVALID, FALSE, 0)

log_get_global_level_call(t) ==
    /\ Enter(t, "log_get_global_level", <<>>, LL_INVALID, FALSE, 0)

log_src_dump_call(t) ==
    /\ initialized
    /\ Enter(t, "log_src_dump", <<>>, LL_INVALID, FALSE, 0)

\* what the calls do between lock and unlock
\* alloc_ok: calloc returns a block
log_register_body(t, alloc_ok) ==
    /\ At(t, "log_register", "body")
    /\ source_hm' = RegisterLocked(source_hm, th[t].source, th[t].level, alloc_ok).hm
    /\ Finish(t)
    /\ UNCHANGED <<initialized, use_mutex, mutex, min_log_level, aborted, hist, fn, snap,
                   owner, log_buf, sink>>

log_unregister_body(t) ==
    /\ At(t, "log_unregister", "body")
    /\ LET elt == HASH_FIND_STR(source_hm, th[t].source) IN
         /\ source_hm' = IF elt # 0 THEN HASH_DEL(source_hm, elt) ELSE source_hm
         /\ dump' = IF elt # 0 THEN Freed(dump, elt) ELSE dump
    /\ Finish(t)
    /\ UNCHANGED <<initialized, use_mutex, mutex, min_log_level, aborted, hist, fn, taken,
                   owner, log_buf, sink>>

log_set_log_level_body(t) ==
    /\ At(t, "log_set_log_level", "body")
    /\ min_log_level' = th[t].level
    /\ Finish(t)
    /\ UNCHANGED <<initialized, use_mutex, mutex, source_hm, aborted, hist, fn, snap,
                   owner, log_buf, sink>>

\* log_will_be_printed, log_get_src_level, log_get_global_level and
\* log_src_dump read the table or the threshold into locals of the thread;
\* log_src_dump goes to its unlock call whether malloc fails or not
query_body(t) ==
    /\ ~aborted
    /\ th[t].op \in {"log_will_be_printed", "log_get_src_level", "log_get_global_level",
                     "log_src_dump"}
    /\ th[t].pc = "body"
    /\ Finish(t)
    /\ UNCHANGED <<ctx, aborted, hist, fn, snap, owner, log_buf, sink>>

\* log_log and log_raw: the gate, then snprintf of the prefix into log_buf
log_body(t) ==
    /\ ~aborted
    /\ th[t].op \in {"log_log", "log_raw"}
    /\ th[t].pc = "body"
    /\ IF is_log_allowed(th[t].source, th[t].level)
       THEN /\ log_buf' = [by |-> t,
                           kind |-> IF th[t].op = "log_log" THEN "log" ELSE "raw"]
            /\ Goto(t, "write")
       ELSE /\ log_buf' = log_buf
            /\ Finish(t)
    /\ UNCHANGED <<ctx, aborted, hist, fn, snap, owner, sink>>

\* The gate of log_will_be_printed, log_log and log_raw in two steps, one for
\* each stage of is_log_allowed: th[t].pc is "source" in front of the lookup
\* and "decided" when the thread has the result in its local res.

\* the first stage: the level against log_ctx.min_log_level
gate_global(t) ==
    /\ ~aborted
    /\ th[t].op \in {"log_will_be_printed", "log_log", "log_raw"}
    /\ th[t].pc = "body"
    /\ IF check_log_level(th[t].level, min_log_level)
       THEN Goto(t, "source")
       ELSE th' = [th EXCEPT ![t].res = FALSE, ![t].pc = "decided"]
    /\ UNCHANGED <<ctx, aborted, hist, fn, snap, owner, log_buf, sink>>

\* the second stage: HASH_FIND_STR and the level against that of the item found
gate_source(t) ==
    /\ ~aborted
    /\ th[t].pc = "source"
    /\ LET elt == HASH_FIND_STR(source_hm, th[t].source) IN
         th' = [th EXCEPT ![t].res = /\ elt # 0
                                      /\ check_log_level(th[t].level, source_hm[elt].min_log_level),
                          ![t].pc = "decided"]
    /\ UNCHANGED <<ctx, aborted, hist, fn, snap, owner, log_buf, sink>>

\* what the caller of the gate does with the result: log_will_be_printed goes
\* to its unlock call, log_log and log_raw format the prefix into log_buf when
\* the result is true
gate_return(t) ==
    /\ ~aborted
    /\ th[t].pc = "decided"
    /\ IF th[t].op # "log_will_be_printed" /\ th[t].res
       THEN /\ log_buf' = [by |-> t,
                           kind |-> IF th[t].op = "log_log" THEN "log" ELSE "raw"]
            /\ th' = [th EXCEPT ![t].res = FALSE, ![t].pc = "write"]
       ELSE /\ log_buf' = log_buf
            /\ Finish(t)
    /\ UNCHANGED <<ctx, aborted, hist, fn, snap, owner, sink>>

\* A line on stderr: t is the thread whose fprintf wrote it, text what it
\* holds (by: the thread that composed it), more whether the call that wrote it
\* has further lines to write. Of stderr the last two lines are kept.
Written(s, line) == IF Len(s) < 2 THEN Append(s, line) ELSE <<s[2], line>>

\* vfprintf(stderr, log_buf, args) of log_log, fprintf(stderr, "%s", log_buf) of log_raw
log_write(t) ==
    /\ ~aborted
    /\ th[t].pc = "write"
    /\ sink' = Written(sink, [t |-> t, text |-> log_buf,
                              more |-> th[t].op = "log_raw" /\ (th[t].flag \/ 0 < th[t].length)])
    /\ IF th[t].op = "log_log" THEN Finish(t)
       ELSE Goto(t, IF th[t].flag THEN "null" ELSE "rows")
    /\ UNCHANGED <<ctx, aborted, hist, fn, snap, owner, log_buf>>

\* one turn of the loop of log_raw: the row is composed in the thread's own
\* hexdump_line and written
log_raw_row(t) ==
    /\ ~aborted
    /\ th[t].pc = "rows"
    /\ IF th[t].i < th[t].length
       THEN /\ sink' = Written(sink, [t |-> t,
                                      text |-> [by |-> t, kind |-> "hexdump",
                                                row |-> th[t].i \div 16],
                                      more |-> th[t].i + 16 < th[t].length])
            /\ th' = [th EXCEPT ![t].i = @ + 16]
       ELSE /\ sink' = sink
            /\ Finish(t)
    /\ UNCHANGED <<ctx, aborted, hist, fn, snap, owner, log_buf>>

\* fprintf(stderr, "NULL\n")
log_raw_null(t) ==
    /\ ~aborted
    /\ th[t].pc = "null"
    /\ sink' = Written(sink, [t |-> t, text |-> [by |-> t, kind |-> "NULL"], more |-> FALSE])
    /\ Finish(t)
    /\ UNCHANGED <<ctx, aborted, hist, fn, snap, owner, log_buf>>

\* log_init called by threads at the same time. log_init takes no lock (the
\* mutex is its own product), so it is cut at each access to log_ctx:
\* th[t].pc is "store_level", "store_mode", "mutex_init" and "set" in front of
\* the lines 479, 480, 483 and 488, and "returned" behind the return, with
\* the value returned in th[t].res.
InitReturns(t, r) == th' = [th EXCEPT ![t].pc = "returned", ![t].res = r]

\* lines 474-477: the read of log_ctx.initialized and the check of the level
log_init_call(t, level, is_thread_safe) ==
    /\ ~aborted
    /\ th[t].pc = "idle"
    /\ LET me == [IdleThr EXCEPT !.op = "log_init", !.level = level, !.flag = is_thread_safe] IN
         IF initialized = FALSE /\ ~((level <= LL_INVALID) \/ (level >= LL_CNT))
         THEN th' = [th EXCEPT ![t] = [me EXCEPT !.pc = "store_level"]]
         ELSE th' = [th EXCEPT ![t] = [me EXCEPT !.pc = "returned"]]
    /\ UNCHANGED <<ctx, aborted, hist, fn, snap, owner, log_buf, sink>>

\* line 479
log_init_store_level(t) ==
    /\ At(t, "log_init", "store_level")
    /\ min_log_level' = th[t].level
    /\ Goto(t, "store_mode")
    /\ UNCHANGED <<initialized, use_mutex, mutex, source_hm, aborted, hist, fn, snap,
                   owner, log_buf, sink>>

\* lines 480-481
log_init_store_mode(t) ==
    /\ At(t, "log_init", "store_mode")
    /\ use_mutex' = th[t].flag
    /\ Goto(t, IF th[t].flag THEN "mutex_init" ELSE "set")
    /\ UNCHANGED <<initialized, min_log_level, mutex, source_hm, aborted, hist, fn, snap,
                   owner, log_buf, sink>>

\* lines 483-486: pthread_mutex_init; on a mutex that is initialized already
\* it leaves a mutex that was initialized twice
log_init_mutex_init(t, mutex_ok) ==
    /\ At(t, "log_init", "mutex_init")
    /\ IF mutex_ok
       THEN /\ mutex' = IF mutex = "zero" THEN "ready" ELSE "twice"
            /\ Goto(t, "set")
       ELSE /\ mutex' = mutex
            /\ InitReturns(t, FALSE)
    /\ UNCHANGED <<initialized, use_mutex, min_log_level, source_hm, aborted, hist, fn, snap,
                   owner, log_buf, sink>>

\* lines 488-489
log_init_set(t) ==
    /\ At(t, "log_init", "set")
    /\ initialized' = TRUE
    /\ InitReturns(t, TRUE)
    /\ UNCHANGED <<use_mutex, min_log_level, mutex, source_hm, aborted, hist, fn, snap,
                   owner, log_buf, sink>>

\* log_init by a thread while no other call is under way
log_init_alone(level, is_thread_safe, mutex_ok) ==
    /\ ~aborted
    /\ \A t \in Threads : th[t].pc = "idle"
    /\ \E r \in BOOLEAN : log_init_body(level, is_thread_safe, mutex_ok, r)
    /\ UNCHANGED <<source_hm, aborted, hist, snap, thr, fn>>

(* ---------------- specifications ---------------- *)

\* the gate: every level, short source names
Next ==
    \/ \E l \in LevelArgs, ts \in BOOLEAN, ok \in BOOLEAN : log_init(l, ts, ok)
    \/ \E l \in LevelArgs : log_set_log_level(l)
    \/ \E a \in GateRegArgs, ok \in BOOLEAN : log_register(a[1], a[2], ok)
    \/ \E s \in GateNames : log_unregister(s)
    \/ \E ok \in BOOLEAN : log_destroy(ok)
    \/ \E s \in GateNames, l \in GateLevels : log_log(s, l)
    \/ \E s \in GateNames, n \in BOOLEAN, len \in RawLengths : log_raw(s, n, len)
    \/ \E s \in GateNames, l \in GateLevels : log_will_be_printed(s, l)
    \/ \E s \in GateNames : log_get_src_level(s)

Spec == Init /\ [][Next]_vars

\* the registry: source names around the stored maximum, few levels
NextReg ==
    \/ \E l \in RegInitLevels, ts \in BOOLEAN, ok \in BOOLEAN : log_init(l, ts, ok)
    \/ \E s \in RegNames, l \in RegLevels :
          \E ok \in AllocChoices(source_hm) : log_register(s, l, ok)
    \/ \E d \in DescrArrays : \E f \in 0..Len(d) :
          log_register_ex(d, FALSE, Len(d), [i \in 1..Len(d) |-> i # f])
    \/ \E num \in 0..MaxDescrs : log_register_ex(<<>>, TRUE, num, <<>>)
    \/ \E s \in RegNames : log_unregister(s)
    \/ \E ok \in BOOLEAN : log_destroy(ok)
    \/ \E s \in RegNames : log_get_src_level(s)
    \/ log_get_global_level

SpecReg == Init /\ [][NextReg]_vars

\* the registry, the global threshold and snapshots of them
NextDump ==
    \/ \E l \in DumpLevels, ts \in BOOLEAN, ok \in BOOLEAN : log_init(l, ts, ok)
    \/ \E l \in DumpLevels : log_set_log_level(l)
    \/ \E s \in GateNames, l \in DumpLevels, ok \in BOOLEAN : log_register(s, l, ok)
    \/ \E s \in GateNames : log_unregister(s)
    \/ \E ok \in BOOLEAN : log_destroy(ok)
    \/ \E ok \in BOOLEAN : log_src_dump(ok)
    \/ log_src_dump_delete

SpecDump == Init /\ [][NextDump]_vars

\* the order of the registry: three names, snapshots
NextOrder ==
    \/ \E ts \in BOOLEAN : log_init(LL_DEBUG, ts, TRUE)
    \/ \E a \in OrderRegArgs, ok \in BOOLEAN : log_register(a[1], a[2], ok)
    \/ \E s \in OrderNames : log_unregister(s)
    \/ log_src_dump(TRUE)
    \/ log_src_dump_delete

SpecOrder == Init /\ [][NextOrder]_vars

\* raw dumps of buffers of every length up to MaxRawLen
NextRaw ==
    \/ \E l \in RawLevels, ts \in BOOLEAN, ok \in BOOLEAN : log_init(l, ts, ok)
    \/ \E s \in GateNames, l \in RawLevels, ok \in BOOLEAN : log_register(s, l, ok)
    \/ \E s \in GateNames, n \in BOOLEAN, len \in 0..MaxRawLen : log_raw(s, n, len)

SpecRaw == Init /\ [][NextRaw]_vars

\* the formatting and conversion helpers, each on inputs of its own
NextFmt ==
    \/ \E len \in 0..MaxBufLen, b1 \in HexBytes, b2 \in HexBytes, hi \in BOOLEAN :
          \E offset \in 0..(len \div 16) : hexdump_row(Buffer(len, b1, b2), offset, hi)
    \/ \E str \in NameStrings \cup OtherStrings : log_str_to_ll_call(str)
    \/ \E l \in LevelValues : log_ll_to_str_call(l)
    \/ \E file \in Paths : compose_log_prefix_call(file)

SpecFmt == Init /\ [][NextFmt]_vars

\* what thread t does once it is in a call
Step(t) ==
    \/ \E ok \in BOOLEAN : log_register_body(t, ok)
    \/ log_unregister_body(t)
    \/ log_set_log_level_body(t)
    \/ query_body(t)
    \/ log_body(t)
    \/ log_write(t)
    \/ log_raw_row(t)
    \/ log_raw_null(t)
    \/ unlock_mutex_if_it_needs(t)

\* the calls of the threads and the steps of these calls
Calls ==
    \/ \E t \in Threads, l \in ThrLevels : log_register_call(t, NET, l)
    \/ \E t \in Threads : log_unregister_call(t, NET)
    \/ \E t \in Threads, l \in ThrLevels : log_set_log_level_call(t, l)
    \/ \E t \in Threads : log_log_call(t, NET, LL_ERROR)
    \/ \E t \in Threads, r \in ThrRaws : log_raw_call(t, NET, r[1], r[2])
    \/ \E t \in Threads : log_will_be_printed_call(t, NET, LL_ERROR)
    \/ \E t \in Threads : log_get_src_level_call(t, NET)
    \/ \E t \in Threads : log_get_global_level_call(t)
    \/ \E t \in Threads : log_src_dump_call(t)
    \/ \E t \in Threads : lock_mutex_if_it_needs(t)
    \/ \E t \in Threads : Step(t)

\* two threads on a context of either mode
NextThr ==
    \/ \E ts \in BOOLEAN, ok \in BOOLEAN : log_init_alone(LL_RAW, ts, ok)
    \/ Calls

SpecThr == Init /\ [][NextThr]_vars

\* two threads on a context that is only ever initialized with
\* is_thread_safe = true
NextSafe ==
    \/ \E ok \in BOOLEAN : log_init_alone(LL_RAW, TRUE, ok)
    \/ Calls

\* the scheduler lets every thread that can take a step take it, and a
\* thread that waits for the mutex gets it if it is free again and again
SpecFair ==
    /\ Init /\ [][NextSafe]_vars
    /\ \A t \in Threads : WF_vars(Step(t)) /\ SF_vars(lock_mutex_if_it_needs(t))

\* the steps of a call with the gate in two steps
StepGate(t) ==
    \/ \E ok \in BOOLEAN : log_register_body(t, ok)
    \/ log_unregister_body(t)
    \/ log_set_log_level_body(t)
    \/ gate_global(t)
    \/ gate_source(t)
    \/ gate_return(t)
    \/ log_write(t)
    \/ log_raw_row(t)
    \/ log_raw_null(t)
    \/ unlock_mutex_if_it_needs(t)

\* two threads that ask the gate and change what it reads, on a context
\* initialized with is_thread_safe = true
NextGate ==
    \/ \E ok \in BOOLEAN : log_init_alone(LL_RAW, TRUE, ok)
    \/ \E t \in Threads, l \in ThrLevels : log_register_call(t, NET, l)
    \/ \E t \in Threads : log_unregister_call(t, NET)
    \/ \E t \in Threads, l \in ThrLevels : log_set_log_level_call(t, l)
    \/ \E t \in Threads : log_log_call(t, NET, LL_DEBUG)
    \/ \E t \in Threads, r \in ThrRaws : log_raw_call(t, NET, r[1], r[2])
    \/ \E t \in Threads : log_will_be_printed_call(t, NET, LL_DEBUG)
    \/ \E t \in Threads : lock_mutex_if_it_needs(t)
    \/ \E t \in Threads : StepGate(t)

SpecGate == Init /\ [][NextGate]_vars

\* the threads call log_init, each once, on the context as it is at start
NextInit ==
    \/ \E t \in Threads, l \in RegInitLevels \cup {LL_ERROR}, ts \in BOOLEAN : log_init_call(t, l, ts)
    \/ \E t \in Threads : log_init_store_level(t)
    \/ \E t \in Threads : log_init_store_mode(t)
    \/ \E t \in Threads, ok \in BOOLEAN : log_init_mutex_init(t, ok)
    \/ \E t \in Threads : log_init_set(t)

SpecInit == Init /\ [][NextInit]_vars

(* ---------------- properties ---------------- *)

Max(a, b) == IF a > b THEN a ELSE b

\* the entries of the registry stored under a name
EntriesOf(hm, name) == {i \in 1..Len(hm) : hm[i].source = name}
Registered(name) == EntriesOf(source_hm, name) # {}

\* the last call was op and it returned
Returned(op) == call.op = op /\ ~aborted

\* the decision the specification gives for (source, severity): the source is
\* registered and the severity reaches both thresholds
GateSaysIn(c, source, severity) ==
    \E i \in EntriesOf(c.source_hm, source) :
        severity >= Max(c.min_log_level, c.source_hm[i].min_log_level)

\* C1: on an initialized context, for a registered source with level p, a
\* global threshold g and a severity s below NONE, log_will_be_printed
\* returns true exactly when s >= max(g, p).
C1_GateDecision ==
    (Returned("log_will_be_printed") /\ initialized /\ call.level < LL_NONE) =>
        \A i \in EntriesOf(source_hm, call.source) :
            (ret = TRUE) <=> (call.level >= Max(min_log_level, source_hm[i].min_log_level))

\* a call allowed although one threshold lies strictly above the other, at
\* the boundary s = max(g, p)
C1_Witness ==
    /\ Returned("log_will_be_printed") /\ initialized /\ call.level < LL_NONE
    /\ ret = TRUE
    /\ \E i \in EntriesOf(source_hm, call.source) :
          /\ source_hm[i].min_log_level > min_log_level
          /\ call.level = source_hm[i].min_log_level

\* C2: for a name that is not in the registry, log_will_be_printed returns
\* false and log_log / log_raw write nothing, whatever the severity, the
\* global threshold and the state of the context.
C2_UnregisteredNeverLogs ==
    (~aborted /\ call.op \in {"log_will_be_printed", "log_log", "log_raw"}
              /\ ~Registered(call.source)) =>
        /\ out = <<>>
        /\ call.op = "log_will_be_printed" => ret = FALSE

\* a query at the most severe level for an unregistered name while another
\* source is registered and the global threshold lets everything through
C2_Witness ==
    /\ Returned("log_will_be_printed") /\ initialized
    /\ ~Registered(call.source) /\ source_hm # <<>>
    /\ min_log_level = LL_RAW /\ call.level = LL_ERROR
    /\ ret = FALSE

\* the state after log_init(LL_INFO, false) and log_register("NET", LL_DEBUG)
C3_Scenario ==
    /\ initialized /\ ~use_mutex /\ min_log_level = LL_INFO
    /\ Len(source_hm) = 1
    /\ source_hm[1].source = NET /\ source_hm[1].min_log_level = LL_DEBUG

\* C3 as stated: after log_init(LL_INFO, false) and
\* log_register("NET", LL_DEBUG), log_will_be_printed("NET", LL_DEBUG)
\* returns true.
C3_Original ==
    (C3_Scenario /\ Returned("log_will_be_printed")
                 /\ call.source = NET /\ call.level = LL_DEBUG) => ret = TRUE

\* C3 amended: in that state log_will_be_printed("NET", LL_DEBUG) returns
\* false, the global threshold LL_INFO being above LL_DEBUG; the query
\* returns true from LL_INFO upward.
C3_Amended ==
    (C3_Scenario /\ Returned("log_will_be_printed") /\ call.source = NET) =>
        (ret = TRUE <=> call.level >= LL_INFO)

C3_Witness ==
    /\ C3_Scenario /\ Returned("log_will_be_printed")
    /\ call.source = NET /\ call.level = LL_DEBUG /\ ret = FALSE

\* the threshold NONE applies to the last call: the global one, or the one of
\* the source the call names
NoneApplies ==
    \/ min_log_level = LL_NONE
    \/ \E i \in EntriesOf(source_hm, call.source) : source_hm[i].min_log_level = LL_NONE

\* C4: when the global threshold or the threshold of the source is LL_NONE,
\* log_log and log_raw write nothing and log_will_be_printed returns false,
\* for every severity the interface accepts.
C4_NoneSuppresses ==
    (~aborted /\ initialized /\ NoneApplies
              /\ call.op \in {"log_will_be_printed", "log_log", "log_raw"}) =>
        /\ out = <<>>
        /\ call.op = "log_will_be_printed" => ret = FALSE

\* C5: log_log and log_raw leave the context as it is; they write only when
\* the context is initialized and the gate allows (source, severity) at the
\* time of the call; a call that is denied or comes before init writes
\* nothing and returns normally; an allowed log_log writes exactly one line.
C5_OutputThroughGate ==
    (call.op \in {"log_log", "log_raw"} /\ ~aborted) =>
        LET allowed == old.initialized /\ GateSaysIn(old, call.source, call.level) IN
        /\ CtxRec = old
        /\ ret = "void"
        /\ out # <<>> => allowed
        /\ ~allowed => out = <<>>
        /\ (allowed /\ call.op = "log_log") => Len(out) = 1
        /\ (allowed /\ call.op = "log_raw") => Len(out) >= 1

\* one log_log that wrote its line and one that was denied by the source's
\* threshold alone
C5_Witness ==
    /\ Returned("log_log") /\ Len(out) = 1 /\ Registered(call.source)

C5_WitnessDenied ==
    /\ Returned("log_log") /\ out = <<>> /\ initialized /\ Registered(call.source)
    /\ call.level >= min_log_level

ValidLevel(level) == level > LL_INVALID /\ level < LL_CNT

\* C6: no two registry entries have the same stored name (registering a
\* name again overwrites its entry instead of adding one).
C6_UniqueKeys ==
    \A i, j \in 1..Len(source_hm) :
        i # j => source_hm[i].source # source_hm[j].source

\* C7: a log_register that returns true has stored the name it was given,
\* with the level it was given, so that a lookup of the name finds the level.
C7_NoTruncation ==
    (Returned("log_register") /\ ret = TRUE) =>
        \E i \in EntriesOf(source_hm, call.source) :
            source_hm[i].min_log_level = call.level

\* C8: log_register with an invalid level, on an uninitialized context, with
\* a name longer than the stored maximum, or whose allocation fails, returns
\* false and leaves the registry and the global threshold as they were.
C8_FailedRegisterNoEffect ==
    (Returned("log_register")
        /\ (\/ ~ValidLevel(call.level)
            \/ ~old.initialized
            \/ Len(call.source) > LOG_SRC_STORED_MAX_SIZE
            \/ ret = FALSE)) =>
        /\ ret = FALSE
        /\ source_hm = old.source_hm
        /\ min_log_level = old.min_log_level

\* a registration that passed every check and failed in calloc, on a
\* registry that holds an entry
C8_Witness ==
    /\ Returned("log_register") /\ ret = FALSE
    /\ ValidLevel(call.level) /\ old.initialized
    /\ Len(call.source) <= LOG_SRC_STORED_MAX_SIZE
    /\ old.source_hm # <<>>

\* registering descr[1..k-1] took table pre to table post: the entries of
\* pre keep their place and name, a level differs or an entry is new only
\* through one of these descriptors, and the last descriptor of each name
\* among them is stored with its level
PrefixApplied(pre, post, descr, k) ==
    /\ Len(post) >= Len(pre)
    /\ \A i \in 1..Len(pre) :
          /\ post[i].source = pre[i].source
          /\ post[i].min_log_level # pre[i].min_log_level =>
                \E j \in 1..(k - 1) : descr[j] = Descr(post[i].source, post[i].min_log_level)
    /\ \A i \in (Len(pre) + 1)..Len(post) :
          \E j \in 1..(k - 1) : descr[j] = Descr(post[i].source, post[i].min_log_level)
    /\ \A j \in 1..(k - 1) :
          /\ ValidLevel(descr[j].min_log_level)
          /\ (\A m \in (j + 1)..(k - 1) : descr[m].source # descr[j].source) =>
                \E i \in EntriesOf(post, descr[j].source) :
                    post[i].min_log_level = descr[j].min_log_level

\* descriptor k was not registered: it is one log_register rejects, or its
\* name has no entry
EntryFailed(post, descr, k) ==
    \/ ~ValidLevel(descr[k].min_log_level)
    \/ Len(descr[k].source) > LOG_SRC_STORED_MAX_SIZE
    \/ EntriesOf(post, descr[k].source) = {}

\* C9: log_register_ex registers the entries in array order and stops at the
\* first one that fails: it returns false with the entries before that one
\* registered and none behind it applied, and returns true only with every
\* entry registered.
C9_PrefixApplication ==
    (Returned("log_register_ex") /\ ~call.flag) =>
        LET descr == call.descr
            n == Len(descr)
        IN  /\ ret = TRUE => PrefixApplied(old.source_hm, source_hm, descr, n + 1)
            /\ ret = FALSE =>
                  \/ ~old.initialized /\ source_hm = old.source_hm
                  \/ \E k \in 1..n : /\ PrefixApplied(old.source_hm, source_hm, descr, k)
                                     /\ EntryFailed(source_hm, descr, k)

\* a batch whose first entry was newly registered and whose second entry failed
C9_Witness ==
    /\ Returned("log_register_ex") /\ ret = FALSE
    /\ Len(call.descr) >= 2
    /\ ~ValidLevel(call.descr[2].min_log_level)
    /\ EntriesOf(old.source_hm, call.descr[1].source) = {}
    /\ \E i \in EntriesOf(source_hm, call.descr[1].source) :
          source_hm[i].min_log_level = call.descr[1].min_log_level

\* table hm without its entry i
RemoveAt(hm, i) == [k \in 1..(Len(hm) - 1) |-> IF k < i THEN hm[k] ELSE hm[k + 1]]

\* C10: log_unregister(name) removes one entry, stored under name, when there
\* is one, and leaves every other entry and the rest of the context as they
\* were; with no entry under name, or before init, it changes nothing; it
\* returns nothing.
C10_UnregisterFrame ==
    Returned("log_unregister") =>
        /\ ret = "void"
        /\ [CtxRec EXCEPT !.source_hm = <<>>] = [old EXCEPT !.source_hm = <<>>]
        /\ IF ~old.initialized \/ EntriesOf(old.source_hm, call.source) = {}
           THEN source_hm = old.source_hm
           ELSE \E i \in EntriesOf(old.source_hm, call.source) :
                    source_hm = RemoveAt(old.source_hm, i)

\* the first of two entries was removed and the second one is still there
C10_Witness ==
    /\ Returned("log_unregister")
    /\ Len(old.source_hm) = 2 /\ old.source_hm[1].source = call.source
    /\ Len(source_hm) = 1 /\ source_hm[1] = old.source_hm[2]
    /\ source_hm[1].source # call.source

\* C11: a log_init that returns false leaves the global threshold, the
\* concurrency-mode flag, the initialized flag and the registry as they were.
C11_FailedInitNoEffect ==
    (Returned("log_init") /\ ret = FALSE) =>
        /\ min_log_level = old.min_log_level
        /\ use_mutex = old.use_mutex
        /\ initialized = old.initialized
        /\ source_hm = old.source_hm

\* C12: a log_init with a valid level that follows a log_destroy which
\* returned true on an initialized context returns true and leaves an
\* initialized context with an empty registry and the threshold and mode it
\* was given (a call with is_thread_safe = false, which creates no guard).
C12_ReusableAfterDestroy ==
    [][(/\ Returned("log_destroy") /\ ret = TRUE /\ old.initialized
        /\ call'.op = "log_init" /\ ~aborted'
        /\ ValidLevel(call'.level) /\ ~call'.flag) =>
          /\ ret' = TRUE
          /\ initialized'
          /\ source_hm' = <<>>
          /\ min_log_level' = call'.level
          /\ use_mutex' = call'.flag]_vars

\* C13: when log_destroy returns the registry is empty, so every lookup
\* fails and the gate denies every source; it returns true on an
\* uninitialized context and when no guard was created, and false only when
\* the guard could not be released (the guard is then as it was).
C13_DestroyClears ==
    Returned("log_destroy") =>
        /\ source_hm = <<>>
        /\ \A n \in GateNames \cup RegNames :
              /\ HASH_FIND_STR(source_hm, n) = 0
              /\ \A s \in GateLevels : ~is_log_allowed(n, s)
        /\ (~old.initialized \/ ~old.use_mutex) => ret = TRUE
        /\ ret = FALSE => (old.initialized /\ old.use_mutex /\ mutex = old.mutex)
        /\ (ret = TRUE /\ old.initialized /\ old.use_mutex) => mutex = "destroyed"

\* a teardown that emptied a registry of two entries
C13_Witness ==
    /\ Returned("log_destroy") /\ ret = TRUE
    /\ Len(old.source_hm) = 2 /\ source_hm = <<>>

\* a teardown that failed to release the guard
C13_WitnessFalse ==
    /\ Returned("log_destroy") /\ ret = FALSE /\ old.source_hm # <<>>

\* C14: log_set_log_level with a valid level on an initialized context
\* returns true, sets the global threshold and leaves the rest of the
\* context alone, so that the gate decides every registered source by the
\* new threshold; otherwise it returns false and changes nothing.
C14_SetLevelFrame ==
    Returned("log_set_log_level") =>
        IF ValidLevel(call.level) /\ old.initialized
        THEN /\ ret = TRUE
             /\ CtxRec = [old EXCEPT !.min_log_level = call.level]
             /\ \A n \in GateNames, s \in GateLevels :
                   is_log_allowed(n, s) <=>
                       \E i \in EntriesOf(old.source_hm, n) :
                           s >= Max(call.level, old.source_hm[i].min_log_level)
        ELSE /\ ret = FALSE
             /\ CtxRec = old

\* the threshold was raised above the level of a registered source
C14_Witness ==
    /\ Returned("log_set_log_level") /\ ret = TRUE
    /\ call.level > old.min_log_level
    /\ \E i \in 1..Len(source_hm) : source_hm[i].min_log_level < call.level

\* C15: while the caller holds a snapshot, whatever log_register,
\* log_unregister, log_set_log_level or log_destroy did since it was taken,
\* its global level, its count and every descriptor's name and level are
\* still valid to read and are what they were when log_src_dump returned.
C15_SnapshotIndependent ==
    ~dump.null =>
        /\ dump.global_level = taken.global_level
        /\ dump.num_log_src_descr = taken.num_log_src_descr
        /\ \A i \in DOMAIN dump.log_src_descrs : dump.log_src_descrs[i].source # 0
        /\ Pairs(dump) = taken.log_src_descrs

\* C16: on an initialized context, when malloc succeeds, log_src_dump returns
\* a snapshot with the current global threshold, the current number of
\* entries and exactly the current (name, level) pairs in table order; on an
\* uninitialized context or when malloc fails it returns NULL; in every case
\* the context is left as it was.
C16_SnapshotContent ==
    Returned("log_src_dump") =>
        /\ CtxRec = old
        /\ IF old.initialized /\ call.flag
           THEN /\ ret = "dump" /\ ~dump.null
                /\ dump.global_level = old.min_log_level
                /\ dump.num_log_src_descr = Len(old.source_hm)
                /\ Len(dump.log_src_descrs) = dump.num_log_src_descr
                /\ Pairs(dump) = old.source_hm
           ELSE ret = "NULL" /\ dump.null

\* a snapshot of a registry of two entries under a valid threshold
C16_Witness ==
    /\ Returned("log_src_dump") /\ ret = "dump"
    /\ dump.num_log_src_descr = 2
    /\ dump.log_src_descrs[1].min_log_level # dump.log_src_descrs[2].min_log_level

\* malloc failed on an initialized context with a registered source
C16_WitnessNull ==
    /\ Returned("log_src_dump") /\ ret = "NULL"
    /\ old.initialized /\ old.source_hm # <<>>

\* C20: when the gate allows RAW for the source, log_raw writes the prefix
\* line and then, for a buffer that is not NULL, ceil(length / 16) hexdump
\* lines with the rows 0, 1, ... in this order (none for length 0); for a
\* NULL buffer the prefix line and the one line NULL, whatever the length.
C20_RawRows ==
    (Returned("log_raw") /\ GateSaysIn(old, call.source, LL_RAW)) =>
        /\ Len(out) >= 1
        /\ out[1] = [kind |-> "raw", prefix |-> compose_log_prefix(call.source, LL_RAW)]
        /\ IF call.flag
           THEN out = <<out[1], [kind |-> "NULL"]>>
           ELSE /\ Len(out) = 1 + (call.length + 15) \div 16
                /\ \A k \in 1..(Len(out) - 1) : out[k + 1] = [kind |-> "hexdump", row |-> k - 1]

\* a buffer of two full rows and one byte
C20_Witness ==
    /\ Returned("log_raw") /\ ~call.flag /\ call.length = 33
    /\ Len(out) = 4 /\ out[4].row = 2

\* a NULL buffer with a length that is not 0
C20_WitnessNull ==
    /\ Returned("log_raw") /\ call.flag /\ call.length = 17
    /\ Len(out) = 2

\* an empty buffer that is not NULL
C20_WitnessEmpty ==
    /\ Returned("log_raw") /\ ~call.flag /\ call.length = 0
    /\ Len(out) = 1

\* thread t is between its lock call and the return of its unlock call
InCS(t) == th[t].pc \in {"body", "source", "decided", "write", "rows", "null", "unlock"}

\* the context was initialized with is_thread_safe = true
ThreadSafe == initialized /\ use_mutex

\* C17: in thread-safe mode at most one thread is between the lock and the
\* unlock call of log_register, log_unregister, log_set_log_level, log_log,
\* log_raw, log_will_be_printed, log_get_src_level, log_get_global_level and
\* log_src_dump, where all their accesses to the table, the threshold and
\* log_buf are, and that thread holds the mutex.
C17_MutualExclusion ==
    ThreadSafe =>
        /\ \A t, u \in Threads : (InCS(t) /\ InCS(u)) => t = u
        /\ \A t \in Threads : InCS(t) => owner = t

\* a thread changes the table while the other waits in log_log for the lock
C17_Witness ==
    /\ ThreadSafe
    /\ \E t, u \in Threads :
          /\ th[t].op = "log_register" /\ th[t].pc = "body"
          /\ th[u].op = "log_log" /\ th[u].pc = "lock"

\* line b may come right behind line a of the same call
FollowsInCall(a, b) ==
    /\ a.t = b.t
    /\ a.more
    /\ b.text.kind = "NULL" => a.text.kind = "raw"
    /\ b.text.kind = "hexdump" =>
          \/ a.text.kind = "raw" /\ b.text.row = 0
          \/ a.text.kind = "hexdump" /\ b.text.row = a.text.row + 1

\* C18: in thread-safe mode every line on stderr holds what the call that
\* wrote it composed, a line that opens a record (of log_log, or the prefix
\* line of log_raw) comes behind a finished record, and every other line
\* comes right behind the line before it of the same log_raw call; a thread
\* that still has lines to write wrote the last line.
C18_Serialized ==
    ThreadSafe =>
        /\ \A k \in 1..Len(sink) : sink[k].text.by = sink[k].t
        /\ Len(sink) = 1 => sink[1].text.kind \in {"log", "raw"}
        /\ Len(sink) = 2 =>
              IF sink[2].text.kind \in {"log", "raw"}
              THEN ~sink[1].more
              ELSE FollowsInCall(sink[1], sink[2])
        /\ \A t \in Threads :
              th[t].pc \in {"rows", "null"} => sink[Len(sink)].t = t

\* the prefix line of a raw dump of one thread right behind the last row of
\* a raw dump of the other, which waits for the lock with its next record
C18_Witness ==
    /\ ThreadSafe
    /\ Len(sink) = 2
    /\ sink[1].t # sink[2].t
    /\ sink[1].text.kind = "hexdump" /\ sink[1].text.row = 1
    /\ sink[2].text.kind = "raw" /\ sink[2].more
    /\ th[sink[1].t].op = "log_log" /\ th[sink[1].t].pc = "lock"

\* C19: in thread-safe mode (and without log_destroy) the mutex is held by a
\* thread exactly while that thread is between its lock call and the return
\* of its unlock call, so it is free when no call is under way, and under a
\* fair scheduler every call that was started returns.
C19_NoBlocking ==
    /\ [](ThreadSafe =>
            /\ \A t \in Threads : owner = t <=> InCS(t)
            /\ (\A t \in Threads : th[t].pc = "idle") => owner = 0)
    /\ \A t \in Threads : (ThreadSafe /\ th[t].pc # "idle") ~> (th[t].pc = "idle")

\* a thread waits for the lock that the other holds in the middle of a dump
C19_Witness ==
    /\ ThreadSafe
    /\ \E t, u \in Threads :
          /\ th[t].pc = "lock"
          /\ owner = u /\ u # t /\ th[u].pc = "rows"

\* the value of a string of hex digits (0 - 1 when it holds anything else)
RECURSIVE HexValue(_)
HexValue(str) ==
    IF str = <<>> THEN 0
    ELSE LET d == {k \in 1..16 : HexDigits[k] = str[Len(str)]}
             front == HexValue(SubSeq(str, 1, Len(str) - 1))
         IN  IF d = {} \/ front < 0 THEN 0 - 1
             ELSE 16 * front + (CHOOSE k \in d : TRUE) - 1

\* C21: for a buffer of length L and a row r with 16 * r < L, with
\* n = min(16, L - 16 * r), the row is the offset 16 * r as 8 hex digits and
\* two blanks, n groups of a blank and the two hex digits of the bytes
\* 16 * r .. 16 * r + n - 1, 16 - n groups of three blanks, " | ", and n
\* characters, each the byte's own character or "." for a byte that is not
\* printable; only indices below L are read and the 61 + n characters and
\* their terminator fit the 100 bytes of the output buffer.
C21_HexdumpRow ==
    fn.f = "compose_hexdump_line" =>
        LET L == Len(fn.buf_in)
            b == 16 * fn.offset
            n == Min(16, L - b)
            t == fn.res.text
        IN  /\ Len(t) = 61 + n
            /\ fn.res.size = 61 + n + 1 /\ fn.res.size <= 100
            /\ HexValue(SubSeq(t, 1, 8)) = b
            /\ SubSeq(t, 9, 10) = <<" ", " ">>
            /\ \A k \in 0..(n - 1) :
                  /\ t[11 + 3 * k] = " "
                  /\ HexValue(SubSeq(t, 12 + 3 * k, 13 + 3 * k)) = fn.buf_in[b + k + 1]
            /\ \A k \in n..15 : SubSeq(t, 11 + 3 * k, 13 + 3 * k) = <<" ", " ", " ">>
            /\ SubSeq(t, 59, 61) = <<" ", "|", " ">>
            /\ \A k \in 0..(n - 1) :
                  LET c == fn.buf_in[b + k + 1] IN
                  IF c >= 32 /\ c <= 126 THEN t[62 + k] = chr(c)
                  ELSE IF c <= 127 THEN t[62 + k] = "."
                  ELSE t[62 + k] \in {".", chr(c)}
            /\ \A i \in fn.res.reads : i < L

\* row 1 of a buffer of 20 bytes: 4 groups, 12 padded, 4 characters of which
\* one is printable and one is not
C21_Witness ==
    /\ fn.f = "compose_hexdump_line"
    /\ Len(fn.buf_in) = 20 /\ fn.offset = 1
    /\ Len(fn.res.text) = 65
    /\ fn.res.text[62] = "A" /\ fn.res.text[63] = "."

\* b is a with some letters changed to the other case
CaseVariant(a, b) ==
    /\ Len(a) = Len(b)
    /\ \A k \in 1..Len(a) :
         \/ a[k] = b[k]
         \/ \E j \in 1..26 : {a[k], b[k]} = {UpperCase[j], LowerCase[j]}

\* C22: log_str_to_ll(log_ll_to_str(s)) = s for every s of RAW..NONE;
\* log_str_to_ll gives s for every case variant of the name of s and LL_INVALID
\* for every string that is no case variant of a name of RAW..NONE;
\* log_ll_to_str gives "INVALID" for every value outside LL_INVALID..LL_NONE
C22_SeverityNames ==
    /\ fn.f = "log_ll_to_str" =>
         /\ fn.log_level \in LL_RAW..LL_NONE =>
              /\ fn.res = log_level_map[fn.log_level + 1]
              /\ log_str_to_ll(fn.res) = fn.log_level
         /\ fn.log_level \notin LL_RAW..LL_NONE => fn.res = <<"I", "N", "V", "A", "L", "I", "D">>
    /\ fn.f = "log_str_to_ll" =>
         /\ \A s \in LL_RAW..LL_NONE : CaseVariant(log_level_map[s + 1], fn.str) => fn.res = s
         /\ (\A s \in LL_RAW..LL_NONE : ~CaseVariant(log_level_map[s + 1], fn.str))
              => fn.res = LL_INVALID

\* "wArNiNg" is read as LL_WARNING
C22_Witness ==
    /\ fn.f = "log_str_to_ll"
    /\ fn.str = <<"W", "a", "R", "n", "I", "n", "G">>
    /\ fn.res = LL_WARNING

\* a value behind the last severity is rendered as "INVALID"
C22_WitnessOutOfRange ==
    /\ fn.f = "log_ll_to_str"
    /\ fn.log_level = LL_CNT
    /\ fn.res = log_level_map[LL_INVALID + 1]

\* a word that is no name is read as LL_INVALID
C22_WitnessBogus ==
    /\ fn.f = "log_str_to_ll"
    /\ fn.str = <<"b", "o", "g", "u", "s">>
    /\ fn.res = LL_INVALID

\* the part of path behind the last '/' or '\', whichever is later; path
\* itself when it has neither
FinalComponent(path) ==
    LET seps == {k \in 1..Len(path) : path[k] \in {"/", "\\"}}
    IN  IF seps = {} THEN path
        ELSE SubSeq(path, (CHOOSE k \in seps : \A j \in seps : j <= k) + 1, Len(path))

\* C28: the file field of the prefix is the part of the path behind its last
\* separator, '/' and '\' both being separators, in the 20 columns of the field
C28_FinalComponent ==
    fn.f = "compose_log_prefix" =>
        fn.res = PadTrunc(FinalComponent(fn.file), LOG_FILE_NAME_MAX_SIZE)

\* C27: once log_init has succeeded the global threshold is one of RAW..NONE
\* and so is the level of every registry entry; log_get_src_level returns
\* LL_INVALID exactly when the registry has no entry under the name
C27_StoredLevelsValid ==
    /\ initialized => ValidLevel(min_log_level)
    /\ \A i \in 1..Len(source_hm) : ValidLevel(source_hm[i].min_log_level)
    /\ Returned("log_get_src_level") => (ret = LL_INVALID <=> ~Registered(call.source))

\* with one name registered the other one is looked up and LL_INVALID returned
C27_Witness ==
    /\ Returned("log_get_src_level")
    /\ initialized
    /\ Len(source_hm) = 1
    /\ ~Registered(call.source)
    /\ ret = LL_INVALID

\* a registered name is looked up and its level returned
C27_WitnessFound ==
    /\ Returned("log_get_src_level")
    /\ initialized
    /\ Registered(call.source)
    /\ ret = LL_NONE

\* the call c, made on the context o, comes to lock_mutex_if_it_needs with
\* use_mutex set: it is through the checks that return in front of the lock
LocksGuard(c, o) ==
    /\ o.use_mutex
    /\ \/ c.op \in {"log_will_be_printed", "log_get_src_level", "log_get_global_level"}
       \/ /\ c.op \in {"log_log", "log_raw", "log_destroy", "log_unregister", "log_src_dump"}
          /\ o.initialized
       \/ /\ c.op = "log_set_log_level"
          /\ o.initialized /\ ValidLevel(c.level)
       \/ /\ c.op = "log_register"
          /\ o.initialized /\ ValidLevel(c.level)
          /\ strlen(c.source) <= LOG_SRC_STORED_MAX_SIZE

\* C25: a call that locks the context mutex finds it created by log_init and
\* not destroyed by log_destroy
C25_GuardLifetime ==
    LocksGuard(call, old) => old.mutex = "ready"

\* the names of the table hm, in the order of its list
Names(hm) == [i \in 1..Len(hm) |-> hm[i].source]

\* C23: a log_register of a name that has an entry leaves the order of the
\* names as it was and one of a new name puts it behind all the others; a
\* log_unregister leaves the other names in the order they had; log_src_dump
\* lists the names in this order, and a second log_src_dump that follows it
\* directly lists the same sequence
C23_SnapshotOrder ==
    [][/\ (call'.op = "log_register" /\ ~aborted' /\ ret' = TRUE) =>
            IF Registered(call'.source)
            THEN Names(source_hm') = Names(source_hm)
            ELSE Names(source_hm') = Append(Names(source_hm), call'.source)
       /\ (call'.op = "log_unregister" /\ ~aborted') =>
            Names(source_hm') = SelectSeq(Names(source_hm), LAMBDA n : n # call'.source)
       /\ (call'.op = "log_src_dump" /\ ~aborted' /\ ret' = "dump") =>
            /\ Names(Pairs(dump)') = Names(source_hm)
            /\ (Returned("log_src_dump") /\ ret = "dump") => Pairs(dump)' = Pairs(dump)
      ]_vars

\* the first of three entries was removed and a snapshot lists the two others
\* in the order they were registered in
C23_Witness ==
    /\ Returned("log_src_dump") /\ ret = "dump"
    /\ Names(source_hm) = <<IO, DB>>
    /\ dump.num_log_src_descr = 2

\* the first of three entries is removed
C23_WitnessRemoveFirst ==
    /\ Returned("log_unregister")
    /\ Len(old.source_hm) = 3 /\ old.source_hm[1].source = call.source
    /\ Names(source_hm) = <<old.source_hm[2].source, old.source_hm[3].source>>

\* the level of the first of three entries is overwritten
C23_WitnessOverwrite ==
    /\ Returned("log_register") /\ ret = TRUE
    /\ Len(old.source_hm) = 3 /\ old.source_hm[1].source = call.source
    /\ old.source_hm[1].min_log_level # call.level
    /\ Names(source_hm) = Names(old.source_hm)

\* C24: in thread-safe mode the result a thread has from the gate is the
\* result of the gate on the threshold and the registry as they are while the
\* thread holds the mutex: both stages have read one state, the one no
\* log_set_log_level, log_register or log_unregister of another thread has
\* changed since the thread took the mutex
C24_GateAtomic ==
    ThreadSafe =>
        \A t \in Threads :
            th[t].pc = "decided" =>
                th[t].res = is_log_allowed(th[t].source, th[t].level)

\* a thread has the result true while the other waits for the mutex in a
\* log_set_log_level that turns the result to false
C24_Witness ==
    /\ ThreadSafe
    /\ \E t, u \in Threads :
          /\ th[t].pc = "decided" /\ th[t].res /\ th[t].op = "log_will_be_printed"
          /\ th[u].pc = "lock" /\ th[u].op = "log_set_log_level"
          /\ th[u].level > th[t].level

\* the log_init of thread t has returned true
InitTrue(t) == th[t].op = "log_init" /\ th[t].pc = "returned" /\ th[t].res

\* C26: of the log_init calls of the threads at most one returns true, the
\* mutex is initialized at most once, and when all calls have returned the
\* threshold and the mode are those given to the call that returned true
C26_InitOnce ==
    /\ \A t, u \in Threads : (InitTrue(t) /\ InitTrue(u)) => t = u
    /\ mutex # "twice"
    /\ (\A t \in Threads : th[t].pc = "returned") =>
          \A t \in Threads :
              InitTrue(t) => (min_log_level = th[t].level /\ use_mutex = th[t].flag)

====
